---- MODULE Spec2Model ----
(***************************************************************************)
(* Model of the attendance server of absensi-smpn28jkt: the relational     *)
(* store (teachers, students, duty_schedules, attendance_records), the     *)
(* handlers that read and write it, and the floor mapping.                 *)
(*                                                                         *)
(* A table is a sequence of rows in insertion order; a query without       *)
(* ORDER BY returns the rows in that order.  Every database statement is   *)
(* atomic.  A handler that issues one statement, or whose checks and       *)
(* write are not interleaved here, is one action; generateAttendanceReport *)
(* issues three reads and is modelled one read per action.                 *)
(***************************************************************************)
EXTENDS Integers, Sequences, FiniteSets, TLC

VARIABLES
    teachers,           \* teachersTable rows
    students,           \* studentsTable rows
    dutySchedules,      \* dutySchedulesTable rows
    attendanceRecords,  \* attendanceRecordsTable rows
    serial,             \* next value of each table's serial id
    report,             \* the generateAttendanceReport request in flight
    resp,               \* what the last completed request returned or threw
    dutyInputs,         \* history: the input createDutySchedule got, per id
    users,              \* usersTable rows
    row,                \* state of an AttendanceRow component of the client
    onSave,             \* the arguments of the row's last onSave call
    floorOf,            \* the client's last getFloorByClass call and its result
    updates,            \* the updateAttendanceRecord requests in flight, per caller
    commits,            \* history: the inputs of the committed updates, in commit order
    currentUser,        \* App: the user logged in at the client, <<>> for none
    screen,             \* state of the client's AttendanceManagement component
    deletes,            \* the deleteAttendanceRecord requests in flight, per caller
    deleteReturns       \* history: what the completed deleteAttendanceRecord calls returned

store == <<teachers, students, dutySchedules, attendanceRecords>>
appState == <<currentUser, screen>>
deleteState == <<deletes, deleteReturns>>
clientState == <<row, onSave, floorOf, appState>>
requests == <<updates, commits, deleteState>>
vars == <<teachers, students, dutySchedules, attendanceRecords, serial, report, resp, dutyInputs,
          users, clientState, requests>>

----------------------------------------------------------------------------
(* Bounds of the model *)

MaxTeachers == 1
MaxStudents == 2
MaxSchedules == 2
MaxRecords == 2
MaxUsers == 2
MaxUpdates == 2
MaxDeletes == 3
MaxImported == 4

----------------------------------------------------------------------------
(* Enumerations of the schema *)

classLevelSchema == {"7", "8", "9"}
classSectionSchema == {"A", "B", "C", "D", "E", "F", "G"}
floorSchema == {"2", "3", "4"}
attendanceStatusSchema == {"present", "sick", "permission", "absent"}
userRoleSchema == {"admin", "teacher"}

NULL == "null"
UNDEFINED == "undefined"

\* What the last request produced: a value, or the message of the Error thrown.
Ok(op, arg, value) == [op |-> op, arg |-> arg, ok |-> TRUE, value |-> value, error |-> ""]
Err(op, arg, msg) == [op |-> op, arg |-> arg, ok |-> FALSE, value |-> <<>>, error |-> msg]

NoReport == [pc |-> "idle"]

----------------------------------------------------------------------------
(* Generic table helpers *)

\* select ... where: SelectSeq keeps the rows that satisfy the condition, in
\* table order.

\* Row ids of a table.
Ids(t) == {t[i].id : i \in DOMAIN t}

\* delete from t where id = id
DeleteById(t, id) == SelectSeq(t, LAMBDA r : r.id # id)

----------------------------------------------------------------------------
(* student_management.ts *)

\* The where-condition getStudentsByFloor builds for floor 2, 3 and 4.
FloorConditionNo8G(floor, s) ==
    CASE floor = "2" ->
            s.class_level = "9" /\ s.class_section \in {"A", "B", "C", "D", "E", "F"}
      [] floor = "3" ->
            \/ (s.class_level = "8" /\ s.class_section \in {"A", "B", "C", "D", "E", "F"})
            \/ (s.class_level = "9" /\ s.class_section = "G")
      [] floor = "4" ->
            s.class_level = "7" /\ s.class_section \in {"A", "B", "C", "D", "E", "F", "G"}

FloorConditionGrade9Only(floor, s) ==
    CASE floor = "2" -> s.class_level = "9"
      [] floor = "3" ->
            \/ (s.class_level = "8" /\ s.class_section \in {"A", "B", "C", "D", "E", "F"})
            \/ (s.class_level = "9" /\ s.class_section = "G")
      [] floor = "4" ->
            \/ (s.class_level = "7" /\ s.class_section \in {"A", "B", "C", "D", "E", "F", "G"})
            \/ (s.class_level = "8" /\ s.class_section = "G")

FloorCondition(floor, s) ==
    CASE floor = "2" ->
            s.class_level = "9" /\ s.class_section \in {"A", "B", "C", "D", "E", "F"}
      [] floor = "3" ->
            \/ (s.class_level = "8" /\ s.class_section \in {"A", "B", "C", "D", "E", "F"})
            \/ (s.class_level = "9" /\ s.class_section = "G")
      [] floor = "4" ->
            \/ (s.class_level = "7" /\ s.class_section \in {"A", "B", "C", "D", "E", "F", "G"})
            \/ (s.class_level = "8" /\ s.class_section = "G")

\* The default branch of the switch throws.
ValidFloor(floor) == floor \in {"2", "3", "4"}

\* db.select().from(studentsTable).where(conditions[0])
StudentsOnFloor(tbl, floor) == SelectSeq(tbl, LAMBDA s : FloorCondition(floor, s))

createStudent(name, level, section) ==
    /\ serial.students <= MaxStudents
    /\ students' = Append(students,
            [id |-> serial.students, name |-> name,
             class_level |-> level, class_section |-> section])
    /\ serial' = [serial EXCEPT !.students = @ + 1]
    /\ resp' = Ok("createStudent", serial.students, students'[Len(students')])
    /\ UNCHANGED <<teachers, dutySchedules, attendanceRecords, report, dutyInputs, users, clientState, requests>>

\* Fields left undefined keep their value; no row with the id: the handler throws.
updateStudent(id, name, level, section) ==
    /\ IF id \in Ids(students)
         THEN /\ students' = [i \in DOMAIN students |->
                    IF students[i].id = id
                      THEN [id |-> id,
                            name |-> IF name = UNDEFINED THEN students[i].name ELSE name,
                            class_level |-> IF level = UNDEFINED
                                              THEN students[i].class_level ELSE level,
                            class_section |-> IF section = UNDEFINED
                                                THEN students[i].class_section ELSE section]
                      ELSE students[i]]
              /\ resp' = Ok("updateStudent", id, TRUE)
         ELSE /\ students' = students
              /\ resp' = Err("updateStudent", id, "Student with id not found")
    /\ UNCHANGED <<teachers, dutySchedules, attendanceRecords, serial, report, dutyInputs, users, clientState, requests>>

\* attendance_records.student_id references students.id with no ON DELETE
\* action: deleting a referenced student is refused by the database.
deleteStudent(id) ==
    /\ IF \E i \in DOMAIN attendanceRecords : attendanceRecords[i].student_id = id
         THEN /\ students' = students
              /\ resp' = Err("deleteStudent", id, "foreign key violation")
         ELSE /\ students' = DeleteById(students, id)
              /\ resp' = Ok("deleteStudent", id, id \in Ids(students))
    /\ UNCHANGED <<teachers, dutySchedules, attendanceRecords, serial, report, dutyInputs, users, clientState, requests>>

\* An unknown floor answered with an empty roster.
getStudentsByFloorEmptyOnInvalid(floor) ==
    /\ resp' = IF ValidFloor(floor)
                 THEN Ok("getStudentsByFloor", floor, StudentsOnFloor(students, floor))
                 ELSE Ok("getStudentsByFloor", floor, <<>>)
    /\ UNCHANGED <<store, serial, report, dutyInputs, users, clientState, requests>>

getStudentsByFloor(floor) ==
    /\ resp' = IF ValidFloor(floor)
                 THEN Ok("getStudentsByFloor", floor, StudentsOnFloor(students, floor))
                 ELSE Err("getStudentsByFloor", floor, "Invalid floor")
    /\ UNCHANGED <<store, serial, report, dutyInputs, users, clientState, requests>>

----------------------------------------------------------------------------
(* teacher handlers *)

\* A nullable number is the set of its values: {} is null (or a field left
\* out), {n} is the number n.  `if (input.user_id)` is JavaScript truthiness:
\* null, undefined and 0 are falsy.
NumberTruthy(n) == n # {} /\ n # {0}

\* input.user_id || null
NumberOrNull(n) == IF NumberTruthy(n) THEN n ELSE {}

\* A truthy user_id is looked up first and the handler throws when no user
\* has it; then the row is inserted.  teachers.nip is unique: a second row
\* with the same nip is refused by the database.
createTeacher(name, nip, user_id) ==
    /\ serial.teachers <= MaxTeachers
    /\ LET input == [name |-> name, nip |-> nip, user_id |-> user_id] IN
       IF NumberTruthy(user_id) /\ user_id \cap Ids(users) = {}
         THEN /\ resp' = Err("createTeacher", input, "User with id does not exist")
              /\ UNCHANGED <<teachers, serial>>
         ELSE /\ IF \E i \in DOMAIN teachers : teachers[i].nip = nip
                   THEN /\ teachers' = teachers
                        /\ resp' = Err("createTeacher", input, "unique violation")
                   ELSE /\ teachers' = Append(teachers,
                              [id |-> serial.teachers, name |-> name, nip |-> nip,
                               user_id |-> NumberOrNull(user_id)])
                        /\ resp' = Ok("createTeacher", input, serial.teachers)
              \* a serial advances even when the insert fails
              /\ serial' = [serial EXCEPT !.teachers = @ + 1]
    /\ UNCHANGED <<students, dutySchedules, attendanceRecords, report, dutyInputs, users,
                   clientState, requests>>

\* duty_schedules.teacher_id references teachers.id with no ON DELETE action.
deleteTeacher(id) ==
    /\ IF \E i \in DOMAIN dutySchedules : dutySchedules[i].teacher_id = id
         THEN /\ teachers' = teachers
              /\ resp' = Err("deleteTeacher", id, "foreign key violation")
         ELSE /\ teachers' = DeleteById(teachers, id)
              /\ resp' = Ok("deleteTeacher", id, id \in Ids(teachers))
    /\ UNCHANGED <<students, dutySchedules, attendanceRecords, serial, report, dutyInputs, users, clientState, requests>>

----------------------------------------------------------------------------
(* duty_schedule.ts *)

\* The row the insert of createDutySchedule stores.
DutyRowWrongFloor(id, teacher_id, duty_date, floor) ==
    [id |-> id, teacher_id |-> teacher_id, duty_date |-> duty_date, floor |-> "2"]

DutyRow(id, teacher_id, duty_date, floor) ==
    [id |-> id, teacher_id |-> teacher_id, duty_date |-> duty_date, floor |-> floor]

createDutySchedule(teacher_id, duty_date, floor) ==
    /\ serial.dutySchedules <= MaxSchedules
    /\ IF teacher_id \notin Ids(teachers)
         THEN /\ resp' = Err("createDutySchedule", teacher_id, "Teacher not found")
              /\ UNCHANGED <<dutySchedules, serial, dutyInputs>>
         ELSE /\ dutySchedules' = Append(dutySchedules,
                    DutyRow(serial.dutySchedules, teacher_id, duty_date, floor))
              /\ serial' = [serial EXCEPT !.dutySchedules = @ + 1]
              /\ resp' = Ok("createDutySchedule", serial.dutySchedules,
                            dutySchedules'[Len(dutySchedules')])
              /\ dutyInputs' = [i \in 1..serial.dutySchedules |->
                    IF i = serial.dutySchedules
                      THEN [teacher_id |-> teacher_id, duty_date |-> duty_date, floor |-> floor]
                      ELSE dutyInputs[i]]
    /\ UNCHANGED <<teachers, students, attendanceRecords, report, users, clientState, requests>>

\* result.length > 0 ? result[0] : null
DutyScheduleById(id) ==
    LET result == SelectSeq(dutySchedules, LAMBDA r : r.id = id)
    IN  IF Len(result) > 0 THEN result[1] ELSE NULL

getDutyScheduleById(id) ==
    /\ resp' = Ok("getDutyScheduleById", id, DutyScheduleById(id))
    /\ UNCHANGED <<store, serial, report, dutyInputs, users, clientState, requests>>

getDutySchedulesByTeacher(teacherId) ==
    /\ resp' = Ok("getDutySchedulesByTeacher", teacherId,
                  SelectSeq(dutySchedules, LAMBDA r : r.teacher_id = teacherId))
    /\ UNCHANGED <<store, serial, report, dutyInputs, users, clientState, requests>>

\* attendance_records.duty_schedule_id references duty_schedules.id with no
\* ON DELETE action: deleting a schedule that has records is refused.
deleteDutyScheduleNoForeignKey(id) ==
    /\ dutySchedules' = DeleteById(dutySchedules, id)
    /\ resp' = Ok("deleteDutySchedule", id, id \in Ids(dutySchedules))
    /\ UNCHANGED <<teachers, students, attendanceRecords, serial, report, dutyInputs, users,
                   clientState, requests>>

deleteDutySchedule(id) ==
    /\ IF \E i \in DOMAIN attendanceRecords : attendanceRecords[i].duty_schedule_id = id
         THEN /\ dutySchedules' = dutySchedules
              /\ resp' = Err("deleteDutySchedule", id, "foreign key violation")
         ELSE /\ dutySchedules' = DeleteById(dutySchedules, id)
              /\ resp' = Ok("deleteDutySchedule", id, id \in Ids(dutySchedules))
    /\ UNCHANGED <<teachers, students, attendanceRecords, serial, report, dutyInputs, users, clientState, requests>>

----------------------------------------------------------------------------
(* attendance handlers *)

\* JavaScript truthiness of a notes value: null, undefined and '' are falsy.
Truthy(notes) == notes \notin {NULL, UNDEFINED, ""}

createAttendanceRecord(duty_schedule_id, student_id, status, is_late, notes) ==
    /\ serial.attendanceRecords <= MaxRecords
    /\ IF duty_schedule_id \notin Ids(dutySchedules)
         THEN /\ resp' = Err("createAttendanceRecord", duty_schedule_id, "Duty schedule not found")
              /\ UNCHANGED <<attendanceRecords, serial>>
         ELSE IF student_id \notin Ids(students)
         THEN /\ resp' = Err("createAttendanceRecord", student_id, "Student not found")
              /\ UNCHANGED <<attendanceRecords, serial>>
         ELSE /\ attendanceRecords' = Append(attendanceRecords,
                    [id |-> serial.attendanceRecords,
                     duty_schedule_id |-> duty_schedule_id,
                     student_id |-> student_id,
                     status |-> status,
                     is_late |-> is_late,
                     notes |-> IF Truthy(notes) THEN notes ELSE NULL])
              /\ serial' = [serial EXCEPT !.attendanceRecords = @ + 1]
              /\ resp' = Ok("createAttendanceRecord", serial.attendanceRecords,
                            attendanceRecords'[Len(attendanceRecords')])
    /\ UNCHANGED <<teachers, students, dutySchedules, report, dutyInputs, users, clientState, requests>>

\* An UpdateAttendanceRecordInput: id, and any of status, is_late and notes;
\* a field the caller leaves out is not in the input's domain.
Optional(field, values) == {<<>>} \cup {field :> v : v \in values}

UpdateAttendanceRecordInputs(ids, statuses, lates, notes) ==
    { ("id" :> i) @@ s @@ l @@ n :
        i \in ids, s \in Optional("status", statuses),
        l \in Optional("is_late", lates), n \in Optional("notes", notes) }

Provided(input, field) == field \in DOMAIN input

\* updateData holds only the fields the input provides.
UpdatedRowKeepingNotes(r, input) ==
    [r EXCEPT !.status = IF Provided(input, "status") THEN input.status ELSE @,
              !.is_late = IF Provided(input, "is_late") THEN input.is_late ELSE @,
              !.notes = IF Provided(input, "notes") /\ Truthy(input.notes)
                          THEN input.notes ELSE @]

UpdatedRowAllFields(r, input) ==
    [r EXCEPT !.status = IF Provided(input, "status") THEN input.status ELSE "present",
              !.is_late = IF Provided(input, "is_late") THEN input.is_late ELSE FALSE,
              !.notes = IF Provided(input, "notes") THEN input.notes ELSE NULL]

UpdatedRow(r, input) ==
    [r EXCEPT !.status = IF Provided(input, "status") THEN input.status ELSE @,
              !.is_late = IF Provided(input, "is_late") THEN input.is_late ELSE @,
              !.notes = IF Provided(input, "notes") THEN input.notes ELSE @]

updateAttendanceRecord(input) ==
    /\ IF input.id \notin Ids(attendanceRecords)
         THEN /\ attendanceRecords' = attendanceRecords
              /\ resp' = Err("updateAttendanceRecord", input.id, "Attendance record not found")
         ELSE /\ attendanceRecords' = [i \in DOMAIN attendanceRecords |->
                    IF attendanceRecords[i].id = input.id
                      THEN UpdatedRow(attendanceRecords[i], input)
                      ELSE attendanceRecords[i]]
              /\ resp' = Ok("updateAttendanceRecord", input.id,
                            SelectSeq(attendanceRecords', LAMBDA r : r.id = input.id)[1])
    /\ UNCHANGED <<teachers, students, dutySchedules, serial, report, dutyInputs, users, clientState, requests>>

\* select ... from attendance_records where duty_schedule_id = dutyScheduleId
RecordsOfAllSchedules(dutyScheduleId) == attendanceRecords

RecordsOf(dutyScheduleId) ==
    SelectSeq(attendanceRecords, LAMBDA r : r.duty_schedule_id = dutyScheduleId)

getAttendanceByDutySchedule(dutyScheduleId) ==
    /\ resp' = Ok("getAttendanceByDutySchedule", dutyScheduleId, RecordsOf(dutyScheduleId))
    /\ UNCHANGED <<store, serial, report, dutyInputs, users, clientState, requests>>

\* A delete by the record's student instead of its id.
deleteAttendanceRecordsOfStudent(id) ==
    /\ attendanceRecords' = SelectSeq(attendanceRecords,
            LAMBDA r : \A i \in DOMAIN attendanceRecords :
                          attendanceRecords[i].id = id =>
                              r.student_id # attendanceRecords[i].student_id)
    /\ resp' = Ok("deleteAttendanceRecord", id, id \in Ids(attendanceRecords))
    /\ UNCHANGED <<teachers, students, dutySchedules, serial, report, dutyInputs, users,
                   clientState, requests>>

deleteAttendanceRecord(id) ==
    /\ attendanceRecords' = DeleteById(attendanceRecords, id)
    /\ resp' = Ok("deleteAttendanceRecord", id, id \in Ids(attendanceRecords))
    /\ UNCHANGED <<teachers, students, dutySchedules, serial, report, dutyInputs, users, clientState, requests>>

\* One pass of records.forEach: the switch on the status, then the late test.
CountRecordNoAbsent(summary, record) ==
    LET s1 == CASE record.status = "present" -> [summary EXCEPT !.present = @ + 1]
                [] record.status = "sick" -> [summary EXCEPT !.sick = @ + 1]
                [] record.status = "permission" -> [summary EXCEPT !.permission = @ + 1]
                [] OTHER -> summary
    IN  IF record.is_late THEN [s1 EXCEPT !.late = @ + 1] ELSE s1

CountRecordLateIfPresent(summary, record) ==
    LET s1 == CASE record.status = "present" -> [summary EXCEPT !.present = @ + 1]
                [] record.status = "sick" -> [summary EXCEPT !.sick = @ + 1]
                [] record.status = "permission" -> [summary EXCEPT !.permission = @ + 1]
                [] record.status = "absent" -> [summary EXCEPT !.absent = @ + 1]
                [] OTHER -> summary
    IN  IF record.is_late /\ record.status = "present"
          THEN [s1 EXCEPT !.late = @ + 1] ELSE s1

CountRecord(summary, record) ==
    LET s1 == CASE record.status = "present" -> [summary EXCEPT !.present = @ + 1]
                [] record.status = "sick" -> [summary EXCEPT !.sick = @ + 1]
                [] record.status = "permission" -> [summary EXCEPT !.permission = @ + 1]
                [] record.status = "absent" -> [summary EXCEPT !.absent = @ + 1]
                [] OTHER -> summary
    IN  IF record.is_late THEN [s1 EXCEPT !.late = @ + 1] ELSE s1

RECURSIVE ForEachRecord(_, _)
ForEachRecord(summary, records) ==
    IF records = <<>> THEN summary
    ELSE ForEachRecord(CountRecord(summary, Head(records)), Tail(records))

\* The summary object getAttendanceSummary returns for a duty schedule.
AttendanceSummary(dutyScheduleId) ==
    LET records == RecordsOf(dutyScheduleId)
    IN  ForEachRecord([total |-> Len(records), present |-> 0, sick |-> 0,
                       permission |-> 0, absent |-> 0, late |-> 0], records)

\* A summary that records the roster's missing students as absent.
getAttendanceSummaryFillingAbsent(dutyScheduleId) ==
    LET missing == Ids(students) \
                     {attendanceRecords[i].student_id : i \in DOMAIN attendanceRecords}
    IN  /\ resp' = Ok("getAttendanceSummary", dutyScheduleId, AttendanceSummary(dutyScheduleId))
        /\ IF missing = {} \/ dutyScheduleId \notin Ids(dutySchedules)
             THEN UNCHANGED <<attendanceRecords, serial>>
             ELSE /\ attendanceRecords' = Append(attendanceRecords,
                        [id |-> serial.attendanceRecords,
                         duty_schedule_id |-> dutyScheduleId,
                         student_id |-> CHOOSE s \in missing : TRUE,
                         status |-> "absent", is_late |-> FALSE, notes |-> NULL])
                  /\ serial' = [serial EXCEPT !.attendanceRecords = @ + 1]
        /\ UNCHANGED <<teachers, students, dutySchedules, report, dutyInputs, users, clientState, requests>>

getAttendanceSummary(dutyScheduleId) ==
    /\ resp' = Ok("getAttendanceSummary", dutyScheduleId, AttendanceSummary(dutyScheduleId))
    /\ UNCHANGED <<store, serial, report, dutyInputs, users, clientState, requests>>

----------------------------------------------------------------------------
(* generateAttendanceReport *)

\* A line of the report is the sequence of the pieces its template literal
\* joins; the report is the sequence of its lines (joined with '\n').

\* Date.prototype.toDateString of a duty date (dates are day numbers here).
toDateString(duty_date) == ToString(duty_date)

\* duty_schedules inner join teachers on teacher_id = teachers.id
\* where duty_schedules.id = duty_schedule_id
DutyInfoAnySchedule(duty_schedule_id) ==
    { [duty_schedules |-> dutySchedules[i], teachers |-> teachers[j]] :
        <<i, j>> \in { p \in (DOMAIN dutySchedules) \X (DOMAIN teachers) :
                        dutySchedules[p[1]].teacher_id = teachers[p[2]].id } }

DutyInfo(duty_schedule_id) ==
    { [duty_schedules |-> dutySchedules[i], teachers |-> teachers[j]] :
        <<i, j>> \in { p \in (DOMAIN dutySchedules) \X (DOMAIN teachers) :
                        /\ dutySchedules[p[1]].teacher_id = teachers[p[2]].id
                        /\ dutySchedules[p[1]].id = duty_schedule_id } }

\* attendance_records inner join students on student_id = students.id
\* where attendance_records.duty_schedule_id = duty_schedule_id, in the
\* order of the attendance rows.
RECURSIVE JoinStudents(_)
JoinStudents(records) ==
    IF records = <<>> THEN <<>>
    ELSE LET r == Head(records)
             m == SelectSeq(students, LAMBDA s : s.id = r.student_id)
         IN  [k \in DOMAIN m |-> [attendance_records |-> r, students |-> m[k]]]
             \o JoinStudents(Tail(records))

AttendanceData(duty_schedule_id) == JoinStudents(RecordsOf(duty_schedule_id))

\* The line pushed for one joined row.
DetailLineNotesIfNotNull(record) ==
    LET student == record.students
        attendance == record.attendance_records
    IN  <<student.name, " (", student.class_level, student.class_section, ") - ",
          attendance.status>>
        \o (IF attendance.is_late THEN <<" (Late)">> ELSE <<>>)
        \o (IF attendance.notes # NULL THEN <<" - ", attendance.notes>> ELSE <<>>)

DetailLine(record) ==
    LET student == record.students
        attendance == record.attendance_records
    IN  <<student.name, " (", student.class_level, student.class_section, ") - ",
          attendance.status>>
        \o (IF attendance.is_late THEN <<" (Late)">> ELSE <<>>)
        \o (IF Truthy(attendance.notes) THEN <<" - ", attendance.notes>> ELSE <<>>)

\* reportContent before the detail lines are pushed.
ReportHead(duty, summary) ==
    << <<"ATTENDANCE REPORT">>,
       <<"================">>,
       <<"Teacher: ", duty.teachers.name, " (", duty.teachers.nip, ")">>,
       <<"Date: ", toDateString(duty.duty_schedules.duty_date)>>,
       <<"Floor: ", duty.duty_schedules.floor>>,
       <<"">>,
       <<"SUMMARY:">>,
       <<"Total Students: ", ToString(summary.total)>>,
       <<"Present: ", ToString(summary.present)>>,
       <<"Sick: ", ToString(summary.sick)>>,
       <<"Permission: ", ToString(summary.permission)>>,
       <<"Absent: ", ToString(summary.absent)>>,
       <<"Late: ", ToString(summary.late)>>,
       <<"">>,
       <<"DETAILED LIST:">>,
       <<"==============">> >>

ReportContent(duty, attendanceData, summary) ==
    ReportHead(duty, summary) \o [i \in DOMAIN attendanceData |-> DetailLine(attendanceData[i])]

\* First await: the duty schedule with its teacher; none: the handler throws.
reportReadDuty(duty_schedule_id) ==
    /\ report.pc = "idle"
    /\ LET dutyInfo == DutyInfo(duty_schedule_id)
       IN  IF dutyInfo = {}
             THEN /\ resp' = Err("generateAttendanceReport", duty_schedule_id,
                                 "Duty schedule not found")
                  /\ report' = report
             ELSE /\ report' = [pc |-> "attendance", duty_schedule_id |-> duty_schedule_id,
                                duty |-> CHOOSE d \in dutyInfo : TRUE]
                  /\ resp' = resp
    /\ UNCHANGED <<store, serial, dutyInputs, users, clientState, requests>>

\* Second await: the attendance rows joined with their students.
reportReadAttendance ==
    /\ report.pc = "attendance"
    /\ report' = [pc |-> "summary", duty_schedule_id |-> report.duty_schedule_id,
                  duty |-> report.duty,
                  attendanceData |-> AttendanceData(report.duty_schedule_id)]
    /\ UNCHANGED <<store, serial, resp, dutyInputs, users, clientState, requests>>

\* Third await: the summary; the content is then built and returned.
reportFinish ==
    /\ report.pc = "summary"
    /\ resp' = Ok("generateAttendanceReport", report.duty_schedule_id,
                  ReportContent(report.duty, report.attendanceData,
                                AttendanceSummary(report.duty_schedule_id)))
    /\ report' = NoReport
    /\ UNCHANGED <<store, serial, dutyInputs, users, clientState, requests>>

----------------------------------------------------------------------------
(* user_management.ts and login *)

\* Bun.password.hash(password): an argon2id hash of the password under a
\* fresh random salt, and Bun.password.verify, which recomputes it.
Salts == {"s1", "s2"}

passwordHash(password, salt) == <<"$argon2id", salt, password>>

passwordVerify(password, hashed) == passwordHash(password, hashed[2]) = hashed

\* users.username is unique: the database refuses a statement that would
\* leave the username in two rows.
UsernameClashNone(tbl, username, id) == FALSE

UsernameClash(tbl, username, id) ==
    \E i \in DOMAIN tbl : tbl[i].username = username /\ tbl[i].id # id

\* seedUsers calls createUser too, for admin and guru1, once the server
\* listens.
createUser(username, password, role, salt) ==
    /\ serial.users <= MaxUsers
    /\ LET input == [username |-> username, password |-> password, role |-> role]
           hashedPassword == passwordHash(password, salt)
       IN  IF UsernameClash(users, username, serial.users)
             THEN /\ users' = users
                  /\ resp' = Err("createUser", input, "unique violation")
             ELSE /\ users' = Append(users,
                        [id |-> serial.users, username |-> username,
                         password |-> hashedPassword, role |-> role])
                  /\ resp' = Ok("createUser", input, users'[Len(users')])
    /\ serial' = [serial EXCEPT !.users = @ + 1]
    /\ UNCHANGED <<store, report, dutyInputs, clientState, requests>>

\* An UpdateUserInput: id, and any of username, password and role.
UpdateUserInputs(ids, usernames, passwords, roles) ==
    { ("id" :> i) @@ u @@ p @@ r :
        i \in ids, u \in Optional("username", usernames),
        p \in Optional("password", passwords), r \in Optional("role", roles) }

\* updateData holds the fields the input provides, the password hashed.
UpdatedUser(r, input, salt) ==
    [r EXCEPT !.username = IF Provided(input, "username") THEN input.username ELSE @,
              !.password = IF Provided(input, "password")
                             THEN passwordHash(input.password, salt) ELSE @,
              !.role = IF Provided(input, "role") THEN input.role ELSE @]

updateUser(input, salt) ==
    /\ IF input.id \notin Ids(users)
         THEN /\ users' = users
              /\ resp' = Err("updateUser", input, "User with id not found")
         ELSE IF Provided(input, "username") /\ UsernameClash(users, input.username, input.id)
         THEN /\ users' = users
              /\ resp' = Err("updateUser", input, "unique violation")
         ELSE /\ users' = [i \in DOMAIN users |->
                    IF users[i].id = input.id
                      THEN UpdatedUser(users[i], input, salt) ELSE users[i]]
              /\ resp' = Ok("updateUser", input,
                            SelectSeq(users', LAMBDA r : r.id = input.id)[1])
    /\ UNCHANGED <<store, serial, report, dutyInputs, clientState, requests>>

\* teachers.user_id references users.id with no ON DELETE action.
deleteUser(id) ==
    /\ IF \E i \in DOMAIN teachers : id \in teachers[i].user_id
         THEN /\ users' = users
              /\ resp' = Err("deleteUser", id, "foreign key violation")
         ELSE /\ users' = DeleteById(users, id)
              /\ resp' = Ok("deleteUser", id, id \in Ids(users))
    /\ UNCHANGED <<store, serial, report, dutyInputs, clientState, requests>>

\* What login returns: a User | null is the sequence of its values, <<>> for
\* null.  The user comes back with its password blanked.
LoginResultNoVerify(username, password) ==
    LET results == SelectSeq(users, LAMBDA r : r.username = username)
    IN  IF Len(results) = 0 THEN <<>>
        ELSE << [results[1] EXCEPT !.password = ""] >>

LoginResult(username, password) ==
    LET results == SelectSeq(users, LAMBDA r : r.username = username)
    IN  IF Len(results) = 0 THEN <<>>
        ELSE IF ~passwordVerify(password, results[1].password) THEN <<>>
        ELSE << [results[1] EXCEPT !.password = ""] >>

login(username, password) ==
    /\ resp' = Ok("login", [username |-> username, password |-> password],
                  LoginResult(username, password))
    /\ UNCHANGED <<store, serial, report, dutyInputs, users, clientState, requests>>

\* The rows getUsers and getUserById select: every column, the password
\* with them.
UserColumns(r) ==
    [id |-> r.id, username |-> r.username, password |-> r.password, role |-> r.role]

getUsers ==
    /\ resp' = Ok("getUsers", <<>>, [i \in DOMAIN users |-> UserColumns(users[i])])
    /\ UNCHANGED <<store, serial, report, dutyInputs, users, clientState, requests>>

\* users.length > 0 ? users[0] : null, the null being <<>>
getUserById(id) ==
    /\ LET found == SelectSeq(users, LAMBDA r : r.id = id)
       IN  resp' = Ok("getUserById", id,
                      IF Len(found) > 0 THEN <<UserColumns(found[1])>> ELSE <<>>)
    /\ UNCHANGED <<store, serial, report, dutyInputs, users, clientState, requests>>

\* App: the login form hands the user that login returned to handleLogin.
\* The requests the client then makes carry nothing of it: createContext
\* returns {} and every procedure of the router is a publicProcedure.
handleLogin ==
    /\ resp.op = "login"
    /\ resp.value # <<>>
    /\ currentUser # resp.value
    /\ currentUser' = resp.value
    /\ UNCHANGED <<store, serial, report, resp, dutyInputs, users, row, onSave, floorOf,
                   screen, requests>>

handleLogout ==
    /\ currentUser # <<>>
    /\ currentUser' = <<>>
    /\ UNCHANGED <<store, serial, report, resp, dutyInputs, users, row, onSave, floorOf,
                   screen, requests>>

----------------------------------------------------------------------------
(* bulkImportTeachers *)

\* The for loop over input.teachers: per teacher the lookup of a truthy
\* user_id and the insert, each insert its own statement; the first throw
\* ends the loop and leaves what was inserted.  next is the serial.
RECURSIVE ImportTeachers(_, _, _)
ImportTeachers(tbl, next, list) ==
    IF list = <<>> THEN [teachers |-> tbl, next |-> next, error |-> ""]
    ELSE LET teacherData == Head(list)
         IN  IF NumberTruthy(teacherData.user_id) /\ teacherData.user_id \cap Ids(users) = {}
               THEN [teachers |-> tbl, next |-> next, error |-> "User with id does not exist"]
             ELSE IF \E i \in DOMAIN tbl : tbl[i].nip = teacherData.nip
               THEN [teachers |-> tbl, next |-> next + 1, error |-> "unique violation"]
             ELSE ImportTeachers(
                      Append(tbl, [id |-> next, name |-> teacherData.name,
                                   nip |-> teacherData.nip,
                                   user_id |-> NumberOrNull(teacherData.user_id)]),
                      next + 1, Tail(list))

\* The loop inside one transaction, rolled back by the throw.
bulkImportTeachersInTransaction(list) ==
    /\ serial.teachers + Len(list) <= MaxImported + 1
    /\ LET done == ImportTeachers(teachers, serial.teachers, list)
       IN  /\ teachers' = IF done.error = "" THEN done.teachers ELSE teachers
           /\ serial' = [serial EXCEPT !.teachers = done.next]
           /\ resp' = IF done.error = ""
                        THEN Ok("bulkImportTeachers", list,
                                SubSeq(done.teachers, Len(teachers) + 1, Len(done.teachers)))
                        ELSE Err("bulkImportTeachers", list, done.error)
    /\ UNCHANGED <<students, dutySchedules, attendanceRecords, report, dutyInputs, users,
                   clientState, requests>>

bulkImportTeachers(list) ==
    /\ serial.teachers + Len(list) <= MaxImported + 1
    /\ LET done == ImportTeachers(teachers, serial.teachers, list)
       IN  /\ teachers' = done.teachers
           /\ serial' = [serial EXCEPT !.teachers = done.next]
           /\ resp' = IF done.error = ""
                        THEN Ok("bulkImportTeachers", list,
                                SubSeq(done.teachers, Len(teachers) + 1, Len(done.teachers)))
                        ELSE Err("bulkImportTeachers", list, done.error)
    /\ UNCHANGED <<students, dutySchedules, attendanceRecords, report, dutyInputs, users,
                   clientState, requests>>

----------------------------------------------------------------------------
(* updateAttendanceRecord, one statement per step *)

\* The handler awaits a select of the record and then the UPDATE; requests
\* of several callers interleave between the two.
Callers == {1, 2}

NoUpdate == [pc |-> "idle"]

InFlight == {c \in Callers : updates[c].pc = "update"}

\* First await: the record with the id; none: the handler throws.
updateSelect(c, input) ==
    /\ updates[c].pc = "idle"
    /\ Len(commits) + Cardinality(InFlight) < MaxUpdates
    /\ IF input.id \notin Ids(attendanceRecords)
         THEN /\ resp' = Err("updateAttendanceRecord", input.id, "Attendance record not found")
              /\ updates' = updates
         ELSE /\ updates' = [updates EXCEPT ![c] = [pc |-> "update", input |-> input]]
              /\ resp' = resp
    /\ UNCHANGED <<store, serial, report, dutyInputs, users, clientState, commits,
                   deleteState>>

\* Second await: update ... set updateData where id = input.id returning.
\* result[0] is undefined when the row has gone in between.
updateWrite(c) ==
    /\ updates[c].pc = "update"
    /\ LET input == updates[c].input
       IN  /\ attendanceRecords' = [i \in DOMAIN attendanceRecords |->
                  IF attendanceRecords[i].id = input.id
                    THEN UpdatedRow(attendanceRecords[i], input)
                    ELSE attendanceRecords[i]]
           /\ resp' = IF input.id \in Ids(attendanceRecords)
                        THEN Ok("updateAttendanceRecord", input.id,
                                SelectSeq(attendanceRecords', LAMBDA r : r.id = input.id)[1])
                        ELSE Ok("updateAttendanceRecord", input.id, UNDEFINED)
           /\ commits' = Append(commits,
                  [input |-> input,
                   concurrent |-> \E o \in InFlight \ {c} : updates[o].input.id = input.id])
    /\ updates' = [updates EXCEPT ![c] = NoUpdate]
    /\ UNCHANGED <<teachers, students, dutySchedules, serial, report, dutyInputs, users,
                   clientState, deleteState>>

----------------------------------------------------------------------------
(* deleteAttendanceRecord, one statement per step *)

NoDelete == [pc |-> "idle"]

DeletesInFlight == {c \in Callers : deletes[c].pc = "delete"}

\* First await: the record with the id; none: the handler returns false.
deleteSelect(c, id) ==
    /\ deletes[c].pc = "idle"
    /\ Len(deleteReturns) + Cardinality(DeletesInFlight) < MaxDeletes
    /\ IF id \notin Ids(attendanceRecords)
         THEN /\ resp' = Ok("deleteAttendanceRecord", id, FALSE)
              /\ deleteReturns' = Append(deleteReturns,
                    [caller |-> c, id |-> id, value |-> FALSE, removed |-> FALSE])
              /\ deletes' = deletes
         ELSE /\ deletes' = [deletes EXCEPT ![c] = [pc |-> "delete", id |-> id]]
              /\ UNCHANGED <<resp, deleteReturns>>
    /\ UNCHANGED <<store, serial, report, dutyInputs, users, clientState, updates, commits>>

\* Second await: delete from attendance_records where id = id; then the
\* handler returns true, whatever the statement removed.
deleteWrite(c) ==
    /\ deletes[c].pc = "delete"
    /\ LET id == deletes[c].id
       IN  /\ attendanceRecords' = DeleteById(attendanceRecords, id)
           /\ resp' = Ok("deleteAttendanceRecord", id, TRUE)
           /\ deleteReturns' = Append(deleteReturns,
                  [caller |-> c, id |-> id, value |-> TRUE,
                   removed |-> id \in Ids(attendanceRecords)])
    /\ deletes' = [deletes EXCEPT ![c] = NoDelete]
    /\ UNCHANGED <<teachers, students, dutySchedules, serial, report, dutyInputs, users,
                   clientState, updates, commits>>

----------------------------------------------------------------------------
(* StudentManagement.tsx *)

\* classCode is the two strings joined.
getFloorByClassGradeOnly(classLevel, classSection) ==
    IF classLevel = "9" THEN "Lantai 2"
    ELSE IF classLevel = "8" THEN "Lantai 3"
    ELSE IF classLevel = "7" THEN "Lantai 4"
    ELSE "Tidak diketahui"

getFloorByClass(classLevel, classSection) ==
    LET classCode == <<classLevel, classSection>>
    IN  IF classLevel = "9" /\ classSection \in {"A", "B", "C", "D", "E", "F"}
          THEN "Lantai 2"
        ELSE IF \/ (classLevel = "8" /\ classSection \in {"A", "B", "C", "D", "E", "F"})
                \/ classCode = <<"9", "G">>
          THEN "Lantai 3"
        ELSE IF classLevel = "7" \/ classCode = <<"8", "G">>
          THEN "Lantai 4"
        ELSE "Tidak diketahui"

\* The component renders the label of a class: the function returns, it
\* has no throw.
renderFloor(classLevel, classSection) ==
    /\ floorOf' = Ok("getFloorByClass", <<classLevel, classSection>>,
                     getFloorByClass(classLevel, classSection))
    /\ UNCHANGED <<store, serial, report, resp, dutyInputs, users, row, onSave, requests,
                   appState>>

----------------------------------------------------------------------------
(* AttendanceManagement.tsx: AttendanceRow *)

\* useState of a row rendered without an attendance record.
InitialRow == [status |-> "present", isLate |-> FALSE, notes |-> "", hasChanges |-> FALSE,
               isSaving |-> FALSE]

\* The Select of the status is always enabled.
handleStatusChange(newStatus) ==
    /\ row' = [row EXCEPT !.status = newStatus, !.hasChanges = TRUE]
    /\ UNCHANGED <<store, serial, report, resp, dutyInputs, users, onSave, floorOf, requests,
                   appState>>

\* The Checkbox is disabled unless the status is present.
handleLateChange(newIsLate) ==
    /\ row.status = "present"
    /\ row' = [row EXCEPT !.isLate = newIsLate, !.hasChanges = TRUE]
    /\ UNCHANGED <<store, serial, report, resp, dutyInputs, users, onSave, floorOf, requests,
                   appState>>

handleNotesChange(newNotes) ==
    /\ row' = [row EXCEPT !.notes = newNotes, !.hasChanges = TRUE]
    /\ UNCHANGED <<store, serial, report, resp, dutyInputs, users, onSave, floorOf, requests,
                   appState>>

\* The Button is disabled unless hasChanges and not isSaving.  onSave is
\* handleAttendanceChange, which sets isSaving before its first await.
handleSave ==
    /\ row.hasChanges /\ ~row.isSaving
    /\ onSave' = <<row.status, row.isLate, row.notes>>
    /\ row' = [row EXCEPT !.hasChanges = FALSE, !.isSaving = TRUE]
    /\ UNCHANGED <<store, serial, report, resp, dutyInputs, users, floorOf, requests,
                   appState>>

\* The mutation resolved: the record returned becomes the row's
\* attendanceRecord, the effect sets the row's state from it, and finally
\* clears isSaving.
saveResolved ==
    /\ row.isSaving
    /\ row' = [status |-> onSave[1], isLate |-> onSave[2], notes |-> onSave[3],
               hasChanges |-> FALSE, isSaving |-> FALSE]
    /\ UNCHANGED <<store, serial, report, resp, dutyInputs, users, onSave, floorOf, requests,
                   appState>>

\* The mutation was rejected: the catch sets the error message only.
saveRejected ==
    /\ row.isSaving
    /\ row' = [row EXCEPT !.isSaving = FALSE]
    /\ UNCHANGED <<store, serial, report, resp, dutyInputs, users, onSave, floorOf, requests,
                   appState>>

----------------------------------------------------------------------------
(* AttendanceManagement.tsx: the screen *)

\* useState of the component; loads are the loadStudentsAndAttendance calls
\* whose Promise.all has not resolved yet.
InitialScreen ==
    [schedules |-> <<>>, selectedSchedule |-> <<>>, students |-> <<>>,
     attendanceRecords |-> <<>>, loads |-> {}]

\* loadSchedules: the teacher's schedules (all of them are of today or later
\* here, so the date filter keeps each).
loadSchedules(teacherId) ==
    /\ screen' = [screen EXCEPT !.schedules =
                      SelectSeq(dutySchedules, LAMBDA r : r.teacher_id = teacherId)]
    /\ screen' # screen
    /\ UNCHANGED <<store, serial, report, resp, dutyInputs, users, row, onSave, floorOf,
                   currentUser, requests>>

\* The Select offers the schedules loaded; a new selectedSchedule runs the
\* effect, which calls loadStudentsAndAttendance and does not wait for it.
handleScheduleChange(scheduleId) ==
    /\ scheduleId \in Ids(screen.schedules)
    /\ LET schedule == SelectSeq(screen.schedules, LAMBDA r : r.id = scheduleId)[1]
       IN  /\ screen.selectedSchedule # <<schedule>>
           /\ screen' = [screen EXCEPT !.selectedSchedule = <<schedule>>,
                                       !.loads = @ \cup {schedule}]
    /\ UNCHANGED <<store, serial, report, resp, dutyInputs, users, row, onSave, floorOf,
                   currentUser, requests>>

\* The two queries of a loadStudentsAndAttendance call have resolved: the
\* roster and the records of that call's schedule are set, whichever
\* schedule is selected by now.
loadResolved(schedule) ==
    /\ schedule \in screen.loads
    /\ screen' = [screen EXCEPT !.students = StudentsOnFloor(students, schedule.floor),
                                !.attendanceRecords = RecordsOf(schedule.id),
                                !.loads = @ \ {schedule}]
    /\ UNCHANGED <<store, serial, report, resp, dutyInputs, users, row, onSave, floorOf,
                   currentUser, requests>>

\* onSave of the row of a listed student: the record of the student in the
\* component's attendanceRecords is updated by its id, and with none there a
\* record is created for the selected schedule; the mutation's result is put
\* into attendanceRecords, an error only sets the message.
handleAttendanceChange(studentId, status, isLate, notes) ==
    /\ screen.selectedSchedule # <<>>
    /\ studentId \in Ids(screen.students)
    /\ LET existing == SelectSeq(screen.attendanceRecords, LAMBDA r : r.student_id = studentId)
           notesOrNull == IF Truthy(notes) THEN notes ELSE NULL
       IN  IF existing # <<>>
             THEN LET updateData == [id |-> existing[1].id, status |-> status,
                                     is_late |-> isLate, notes |-> notesOrNull]
                  IN  /\ IF updateData.id \notin Ids(attendanceRecords)
                           THEN /\ resp' = Err("updateAttendanceRecord", updateData.id,
                                               "Attendance record not found")
                                /\ UNCHANGED <<attendanceRecords, screen>>
                           ELSE /\ attendanceRecords' = [i \in DOMAIN attendanceRecords |->
                                      IF attendanceRecords[i].id = updateData.id
                                        THEN UpdatedRow(attendanceRecords[i], updateData)
                                        ELSE attendanceRecords[i]]
                                /\ LET updatedRecord ==
                                          SelectSeq(attendanceRecords',
                                                    LAMBDA r : r.id = updateData.id)[1]
                                   IN  /\ resp' = Ok("updateAttendanceRecord", updateData.id,
                                                     updatedRecord)
                                       /\ screen' = [screen EXCEPT !.attendanceRecords =
                                              [i \in DOMAIN @ |->
                                                  IF @[i].id = updatedRecord.id
                                                    THEN updatedRecord ELSE @[i]]]
                      /\ serial' = serial
             ELSE LET duty_schedule_id == screen.selectedSchedule[1].id
                  IN  /\ serial.attendanceRecords <= MaxRecords
                      /\ IF duty_schedule_id \notin Ids(dutySchedules)
                           THEN /\ resp' = Err("createAttendanceRecord", duty_schedule_id,
                                               "Duty schedule not found")
                                /\ UNCHANGED <<attendanceRecords, serial, screen>>
                         ELSE IF studentId \notin Ids(students)
                           THEN /\ resp' = Err("createAttendanceRecord", studentId,
                                               "Student not found")
                                /\ UNCHANGED <<attendanceRecords, serial, screen>>
                         ELSE LET newRecord == [id |-> serial.attendanceRecords,
                                                duty_schedule_id |-> duty_schedule_id,
                                                student_id |-> studentId,
                                                status |-> status,
                                                is_late |-> isLate,
                                                notes |-> notesOrNull]
                              IN  /\ attendanceRecords' = Append(attendanceRecords, newRecord)
                                  /\ serial' = [serial EXCEPT !.attendanceRecords = @ + 1]
                                  /\ resp' = Ok("createAttendanceRecord", newRecord.id, newRecord)
                                  /\ screen' = [screen EXCEPT !.attendanceRecords =
                                                    Append(@, newRecord)]
    /\ UNCHANGED <<teachers, students, dutySchedules, report, dutyInputs, users, row, onSave,
                   floorOf, currentUser, requests>>

----------------------------------------------------------------------------
(* Specifications *)

Init ==
    /\ teachers = <<>>
    /\ students = <<>>
    /\ dutySchedules = <<>>
    /\ attendanceRecords = <<>>
    /\ serial = [teachers |-> 1, students |-> 1, dutySchedules |-> 1, attendanceRecords |-> 1,
                 users |-> 1]
    /\ report = NoReport
    /\ resp = Ok("start", <<>>, <<>>)
    /\ dutyInputs = <<>>
    /\ users = <<>>
    /\ row = InitialRow
    /\ onSave = <<>>
    /\ floorOf = <<>>
    /\ updates = [c \in Callers |-> NoUpdate]
    /\ commits = <<>>
    /\ currentUser = <<>>
    /\ screen = InitialScreen
    /\ deletes = [c \in Callers |-> NoDelete]
    /\ deleteReturns = <<>>

\* The student table under every class of the catalogue, and the floor query.
FloorValues == {"2", "3", "4", "5"}

NextFloor ==
    \/ \E l \in classLevelSchema, s \in classSectionSchema : createStudent("Ani", l, s)
    \/ \E id \in 1..MaxStudents, l \in classLevelSchema \cup {UNDEFINED},
          s \in classSectionSchema \cup {UNDEFINED} : updateStudent(id, UNDEFINED, l, s)
    \/ \E id \in 1..MaxStudents : deleteStudent(id)
    \/ \E f \in FloorValues : getStudentsByFloor(f)

SpecFloor == Init /\ [][NextFloor]_vars

\* The attendance API: records of every status and lateness for a few
\* students and duty schedules, the summary and the queries.
Next ==
    \/ createTeacher("Bu Sari", "1985", {})
    \/ createStudent("Ani", "9", "A")
    \/ \E t \in 1..MaxTeachers : createDutySchedule(t, 1, "2")
    \/ \E d \in 1..MaxSchedules : deleteDutySchedule(d)
    \/ \E d \in 1..MaxSchedules, s \in 1..MaxStudents, st \in attendanceStatusSchema,
          l \in BOOLEAN : createAttendanceRecord(d, s, st, l, UNDEFINED)
    \/ \E input \in UpdateAttendanceRecordInputs(1..MaxRecords, attendanceStatusSchema,
                                                 BOOLEAN, {}) : updateAttendanceRecord(input)
    \/ \E id \in 1..MaxRecords : deleteAttendanceRecord(id)
    \/ \E d \in 1..MaxSchedules : getAttendanceByDutySchedule(d)
    \/ \E d \in 1..MaxSchedules : getAttendanceSummary(d)

Spec == Init /\ [][Next]_vars

\* Report generation, one read per step, interleaved with writes: records
\* with and without lateness and notes, of two students and two schedules.
ReportCreateInputs ==
    { <<"present", TRUE, "macet">>, <<"sick", FALSE, UNDEFINED>> }

NextReport ==
    \/ createTeacher("Bu Sari", "1985", {})
    \/ \E n \in {"Ani", "Budi"} : createStudent(n, "9", "A")
    \/ \E id \in 1..MaxStudents : deleteStudent(id)
    \/ \E t \in 1..MaxTeachers : createDutySchedule(t, 1, "2")
    \/ \E d \in 1..MaxSchedules, s \in 1..MaxStudents, in \in ReportCreateInputs :
          createAttendanceRecord(d, s, in[1], in[2], in[3])
    \/ \E input \in UpdateAttendanceRecordInputs(1..MaxRecords, {}, {}, {""}) :
          updateAttendanceRecord(input)
    \/ \E id \in 1..MaxRecords : deleteAttendanceRecord(id)
    \/ \E d \in 1..MaxSchedules : getAttendanceSummary(d)
    \/ \E d \in 1..MaxSchedules : reportReadDuty(d)
    \/ reportReadAttendance
    \/ reportFinish

SpecReport == Init /\ [][NextReport]_vars

\* Duty schedules of every floor and of two dates, with every operation
\* that writes a table.
NextDuty ==
    \/ createTeacher("Bu Sari", "1985", {})
    \/ \E t \in 1..MaxTeachers : deleteTeacher(t)
    \/ createStudent("Ani", "9", "A")
    \/ updateStudent(1, "Budi", "8", "G")
    \/ deleteStudent(1)
    \/ \E t \in 1..MaxTeachers, date \in {1, 2}, f \in floorSchema : createDutySchedule(t, date, f)
    \/ \E d \in 1..MaxSchedules : deleteDutySchedule(d)
    \/ \E d \in 1..MaxSchedules : getDutyScheduleById(d)
    \/ \E t \in 1..MaxTeachers : getDutySchedulesByTeacher(t)
    \/ \E d \in 1..MaxSchedules : createAttendanceRecord(d, 1, "present", FALSE, UNDEFINED)
    \/ \E input \in UpdateAttendanceRecordInputs(1..MaxRecords, {"absent"}, {}, {}) :
          updateAttendanceRecord(input)
    \/ \E id \in 1..MaxRecords : deleteAttendanceRecord(id)

SpecDuty == Init /\ [][NextDuty]_vars

\* One AttendanceRow: the teacher edits status, lateness and notes and saves.
NextRow ==
    \/ \E st \in attendanceStatusSchema : handleStatusChange(st)
    \/ \E l \in BOOLEAN : handleLateChange(l)
    \/ \E n \in {"", "macet"} : handleNotesChange(n)
    \/ handleSave
    \/ saveResolved
    \/ saveRejected

SpecRow == Init /\ [][NextRow]_vars

\* The student list of the client: students of every class, the roster
\* query, and the floor label of a class, in the catalogue or not.
NextClass ==
    \/ \E l \in classLevelSchema, s \in classSectionSchema : createStudent("Ani", l, s)
    \/ \E f \in FloorValues : getStudentsByFloor(f)
    \/ \E l \in classLevelSchema \cup {"5"}, s \in classSectionSchema \cup {"H"} :
          renderFloor(l, s)

SpecClass == Init /\ [][NextClass]_vars

\* User accounts: two usernames and two passwords, logins with known and
\* unknown names, and a teacher linked to a user.
Usernames == {"admin", "guru1"}
Passwords == {"password123", "rahasia1"}
UserIds == {{}, {0}, {1}, {2}}

NextUsers ==
    \/ \E u \in Usernames, p \in Passwords, r \in userRoleSchema, salt \in Salts :
          createUser(u, p, r, salt)
    \/ \E input \in UpdateUserInputs(1..MaxUsers, Usernames, {"rahasia1"}, {}), salt \in Salts :
          updateUser(input, salt)
    \/ \E id \in 1..MaxUsers : deleteUser(id)
    \/ \E u \in Usernames \cup {"tamu"}, p \in Passwords : login(u, p)
    \/ \E u \in UserIds : createTeacher("Bu Sari", "1985", u)
    \/ \E t \in 1..MaxTeachers : deleteTeacher(t)

SpecUsers == Init /\ [][NextUsers]_vars

\* Every create of a row that names another row, with ids that are stored
\* and ids that are not.
NextCreate ==
    \/ createUser("guru1", "password123", "teacher", "s1")
    \/ \E u \in UserIds : createTeacher("Bu Sari", "1985", u)
    \/ createStudent("Ani", "9", "A")
    \/ \E t \in 1..(MaxTeachers + 1) : createDutySchedule(t, 1, "2")
    \/ \E d \in 1..MaxSchedules, s \in 1..MaxStudents :
          createAttendanceRecord(d, s, "present", FALSE, UNDEFINED)

SpecCreate == Init /\ [][NextCreate]_vars

\* Updates of two callers, one statement per step, on records created late
\* and with notes, with deletes in between.
NextUpdate ==
    \/ createTeacher("Bu Sari", "1985", {})
    \/ createStudent("Ani", "9", "A")
    \/ \E t \in 1..MaxTeachers : createDutySchedule(t, 1, "2")
    \/ \E s \in 1..MaxStudents : createAttendanceRecord(1, s, "permission", TRUE, "macet")
    \/ \E c \in Callers :
          \E input \in UpdateAttendanceRecordInputs(1..MaxRecords, {"sick", "absent"},
                                                    {}, {NULL}) :
              updateSelect(c, input)
    \/ \E c \in Callers : updateWrite(c)
    \/ \E id \in 1..MaxRecords : deleteAttendanceRecord(id)

SpecUpdate == Init /\ [][NextUpdate]_vars

\* The user API called by whoever can reach the server, logged in at the
\* client as admin, as teacher or not at all.
NextAuth ==
    \/ \E u \in Usernames, r \in userRoleSchema : createUser(u, "password123", r, "s1")
    \/ \E input \in UpdateUserInputs(1..MaxUsers, {}, {}, userRoleSchema) :
          updateUser(input, "s1")
    \/ \E id \in 1..MaxUsers : deleteUser(id)
    \/ getUsers
    \/ \E id \in 1..MaxUsers : getUserById(id)
    \/ \E u \in Usernames : login(u, "password123")
    \/ handleLogin
    \/ handleLogout

SpecAuth == Init /\ [][NextAuth]_vars

\* Two callers deleting attendance records, one statement per step.
NextDelete ==
    \/ createTeacher("Bu Sari", "1985", {})
    \/ createStudent("Ani", "9", "A")
    \/ \E t \in 1..MaxTeachers : createDutySchedule(t, 1, "2")
    \/ \E d \in 1..MaxSchedules : createAttendanceRecord(d, 1, "present", FALSE, UNDEFINED)
    \/ \E c \in Callers, id \in 1..MaxRecords : deleteSelect(c, id)
    \/ \E c \in Callers : deleteWrite(c)

SpecDelete == Init /\ [][NextDelete]_vars

\* Imports of lists of up to three teachers, with nips that repeat and
\* user ids that are stored, not stored, null and 0.
TeacherData == [name : {"Pak Budi"}, nip : {"1985", "1990"}, user_id : UserIds]
TeacherLists ==
    {<<a>> : a \in TeacherData} \cup (TeacherData \X TeacherData)
        \cup (TeacherData \X TeacherData \X TeacherData)

NextImport ==
    \/ createUser("guru1", "password123", "teacher", "s1")
    \/ createTeacher("Bu Sari", "1985", {})
    \/ \E list \in TeacherLists : bulkImportTeachers(list)

SpecImport == Init /\ [][NextImport]_vars

\* The attendance screen of a teacher with a schedule on floor 2 and one on
\* floor 3, a student on each floor, and saves while loads are in flight.
NextScreen ==
    \/ createTeacher("Bu Sari", "1985", {})
    \/ \E c \in {<<"Ani", "9", "A">>, <<"Budi", "8", "A">>} : createStudent(c[1], c[2], c[3])
    \/ \E t \in 1..MaxTeachers, f \in {"2", "3"} : createDutySchedule(t, 1, f)
    \/ \E t \in 1..MaxTeachers : loadSchedules(t)
    \/ \E d \in 1..MaxSchedules : handleScheduleChange(d)
    \/ \E schedule \in screen.loads : loadResolved(schedule)
    \/ \E s \in 1..MaxStudents, st \in {"present", "sick"} :
          handleAttendanceChange(s, st, FALSE, "")

SpecScreen == Init /\ [][NextScreen]_vars

----------------------------------------------------------------------------
(* The floor table of the school, as the specification gives it *)

AuthoritativeFloor(level, section) ==
    CASE level = "9" /\ section \in {"A", "B", "C", "D", "E", "F"} -> "2"
      [] level = "8" /\ section \in {"A", "B", "C", "D", "E", "F"} -> "3"
      [] level = "9" /\ section = "G" -> "3"
      [] level = "7" -> "4"
      [] level = "8" /\ section = "G" -> "4"

\* C1: every stored student, whatever class of the catalogue it is in, is
\* selected by the roster query of exactly one of the floors 2, 3 and 4.
C1_FloorsPartition ==
    \A i \in DOMAIN students :
        Cardinality({f \in floorSchema :
            \E j \in DOMAIN StudentsOnFloor(students, f) :
                StudentsOnFloor(students, f)[j] = students[i]}) = 1

\* Students of two different floors are stored and each is on one roster only.
C1_Witness ==
    /\ Len(students) = 2
    /\ students[1].class_level = "9" /\ students[1].class_section = "G"
    /\ students[2].class_level = "8" /\ students[2].class_section = "G"
    /\ Len(StudentsOnFloor(students, "3")) = 1
    /\ Len(StudentsOnFloor(students, "4")) = 1

\* C2: a completed getStudentsByFloor(f) for f in 2..4 returned exactly the
\* stored students whose class the floor table puts on floor f, each once,
\* in table order.
C2_RosterMatchesTable ==
    (resp.op = "getStudentsByFloor" /\ resp.ok) =>
        resp.value = SelectSeq(students,
            LAMBDA s : AuthoritativeFloor(s.class_level, s.class_section) = resp.arg)

C2_Witness ==
    /\ resp.op = "getStudentsByFloor" /\ resp.ok /\ resp.arg = "3"
    /\ Len(students) = 2
    /\ Len(resp.value) = 1
    /\ resp.value[1].class_level = "9" /\ resp.value[1].class_section = "G"

----------------------------------------------------------------------------
(* Attendance summary *)

\* The positions in the table of the records of duty schedule d.
RowsOfSession(d) == {i \in DOMAIN attendanceRecords : attendanceRecords[i].duty_schedule_id = d}

RowsWithStatus(d, status) == {i \in RowsOfSession(d) : attendanceRecords[i].status = status}

SummaryReturned == resp.op = "getAttendanceSummary"

\* C3: a completed getAttendanceSummary(d) raised no error and returned, for
\* each of the four statuses, the number of stored records of d with that
\* status, and their number as total; the four counts add up to total, and
\* with no record of d all six counts are 0.
C3_SummaryCountsByStatus ==
    SummaryReturned =>
        LET s == resp.value
            d == resp.arg
        IN  /\ resp.ok
            /\ s.present = Cardinality(RowsWithStatus(d, "present"))
            /\ s.sick = Cardinality(RowsWithStatus(d, "sick"))
            /\ s.permission = Cardinality(RowsWithStatus(d, "permission"))
            /\ s.absent = Cardinality(RowsWithStatus(d, "absent"))
            /\ s.total = Cardinality(RowsOfSession(d))
            /\ s.present + s.sick + s.permission + s.absent = s.total
            /\ (RowsOfSession(d) = {} =>
                    s = [total |-> 0, present |-> 0, sick |-> 0,
                         permission |-> 0, absent |-> 0, late |-> 0])

\* The summary of the repository's test: one present and late, one absent.
C3_Witness ==
    /\ SummaryReturned
    /\ resp.value = [total |-> 2, present |-> 1, sick |-> 0,
                     permission |-> 0, absent |-> 1, late |-> 1]

\* C4: the late count of a returned summary is the number of records of the
\* session with is_late true, of whatever status, and is at most total.
C4_LateIndependentOfStatus ==
    SummaryReturned =>
        /\ resp.value.late = Cardinality({i \in RowsOfSession(resp.arg) :
                                            attendanceRecords[i].is_late})
        /\ resp.value.late <= resp.value.total

\* A late record that is not present was counted as late.
C4_Witness ==
    /\ SummaryReturned
    /\ resp.value.late = 2
    /\ resp.value.present = 0
    /\ resp.value.sick = 1
    /\ resp.value.absent = 1

\* The students of the floor of duty schedule d with no record for d.
UnrecordedOnRoster(d) ==
    LET sched == SelectSeq(dutySchedules, LAMBDA r : r.id = d)
        roster == IF sched = <<>> THEN <<>> ELSE StudentsOnFloor(students, sched[1].floor)
    IN  {roster[k].id : k \in DOMAIN roster} \
            {attendanceRecords[i].student_id : i \in RowsOfSession(d)}

\* C5: whatever creates, updates and deletes came before, the total of a
\* returned summary is the number of stored records of that duty schedule and
\* its absent count the number of those with status absent: records of other
\* schedules and roster students without a record count for nothing.
C5_TotalCountsStoredRecordsOnly ==
    SummaryReturned =>
        /\ resp.value.total =
              Len(attendanceRecords)
                - Cardinality({i \in DOMAIN attendanceRecords :
                                  attendanceRecords[i].duty_schedule_id # resp.arg})
        /\ resp.value.absent = Cardinality(RowsWithStatus(resp.arg, "absent"))
        /\ (\A i \in DOMAIN attendanceRecords :
                attendanceRecords[i].status # "absent") => resp.value.absent = 0

\* A roster student has no record, another schedule has one, and the summary
\* counts one record and nobody absent.
C5_Witness ==
    /\ SummaryReturned
    /\ UnrecordedOnRoster(resp.arg) # {}
    /\ Len(attendanceRecords) = 2
    /\ resp.value.total = 1
    /\ resp.value.absent = 0

\* C6: no two stored attendance records have the same duty_schedule_id and
\* student_id.
C6_OneRecordPerStudentAndSession ==
    \A i, j \in DOMAIN attendanceRecords :
        (/\ attendanceRecords[i].duty_schedule_id = attendanceRecords[j].duty_schedule_id
         /\ attendanceRecords[i].student_id = attendanceRecords[j].student_id) => i = j

----------------------------------------------------------------------------
(* Attendance report *)

ReportStep == report' # report \/ (resp' # resp /\ resp'.op = "generateAttendanceReport")

SummaryLabels ==
    <<"Total Students: ", "Present: ", "Sick: ", "Permission: ", "Absent: ", "Late: ">>

\* The detail line of one record and its student, as the claim words it.
LineIsFor(line, attendance, student) ==
    LET late == IF attendance.is_late THEN 1 ELSE 0
        noted == attendance.notes # NULL /\ attendance.notes # ""
    IN  /\ Len(line) = 6 + late + (IF noted THEN 2 ELSE 0)
        /\ line[1] = student.name
        /\ line[3] = student.class_level /\ line[4] = student.class_section
        /\ line[6] = attendance.status
        /\ (attendance.is_late => line[7] = " (Late)")
        /\ (noted => /\ line[Len(line) - 1] = " - "
                     /\ line[Len(line)] = attendance.notes)

\* C7: the read of the attendance rows yields the stored records of the
\* session, in table order, each with its student; the report returned has
\* the six summary lines in the order Total Students, Present, Sick,
\* Permission, Absent, Late, and after them exactly one detail line per row
\* read, in the order read, with name, class, status, ' (Late)' exactly when
\* is_late, and the notes exactly when they are not empty.
C7_ReportLines ==
    [][ /\ (report.pc = "attendance" /\ report'.pc = "summary") =>
              LET data == report'.attendanceData
              IN  /\ [i \in DOMAIN data |-> data[i].attendance_records] =
                        SelectSeq(attendanceRecords,
                            LAMBDA r : r.duty_schedule_id = report.duty_schedule_id)
                  /\ \A i \in DOMAIN data :
                        /\ data[i].students.id = data[i].attendance_records.student_id
                        /\ \E k \in DOMAIN students : students[k] = data[i].students
        /\ (report.pc = "summary" /\ report'.pc = "idle") =>
              LET data == report.attendanceData
                  content == resp'.value
              IN  /\ resp'.op = "generateAttendanceReport" /\ resp'.ok
                  /\ Len(content) = 16 + Len(data)
                  /\ [i \in 1..6 |-> content[7 + i][1]] = SummaryLabels
                  /\ \A i \in 8..13 : Len(content[i]) = 2
                  /\ \A i \in DOMAIN data :
                        LineIsFor(content[16 + i], data[i].attendance_records,
                                  data[i].students)
      ]_vars

\* A report with two detail lines: a late one with notes, and one that is
\* not late and whose notes are the empty string.
C7_Witness ==
    /\ resp.op = "generateAttendanceReport" /\ resp.ok
    /\ Len(resp.value) = 18
    /\ resp.value[17] = <<"Ani", " (", "9", "A", ") - ", "present", " (Late)", " - ", "macet">>
    /\ resp.value[18] = <<"Budi", " (", "9", "A", ") - ", "sick">>
    /\ \E i \in DOMAIN attendanceRecords : attendanceRecords[i].notes = ""

\* C8: a report is generated only for a duty schedule that exists when the
\* request reads it; a request for an id with no duty schedule ends at that
\* read with the error 'Duty schedule not found', no content, and no table
\* changed.
C8_ReportOfMissingSchedule ==
    [][ /\ (report.pc = "idle" /\ report'.pc # "idle") =>
              report'.duty_schedule_id \in Ids(dutySchedules)
        /\ (resp' # resp /\ resp'.op = "generateAttendanceReport" /\ report.pc = "idle") =>
              /\ resp'.arg \notin Ids(dutySchedules)
              /\ ~resp'.ok
              /\ resp'.error = "Duty schedule not found"
              /\ resp'.value = <<>>
              /\ store' = store
              /\ report' = report
      ]_vars

\* The request failed although another duty schedule, with a record, exists.
C8_Witness ==
    /\ resp.op = "generateAttendanceReport" /\ ~resp.ok
    /\ resp.error = "Duty schedule not found"
    /\ dutySchedules # <<>> /\ attendanceRecords # <<>>

\* C9: a step of getAttendanceSummary or of generateAttendanceReport leaves
\* every table and every id sequence as it was, and a getAttendanceSummary
\* that directly follows one for the same duty schedule returns the same
\* summary.
C9_ReadsArePure ==
    [][ /\ (ReportStep \/ resp'.op = "getAttendanceSummary") =>
              (store' = store /\ serial' = serial)
        /\ (/\ resp.op = "getAttendanceSummary"
            /\ resp'.op = "getAttendanceSummary"
            /\ resp'.arg = resp.arg) => resp' = resp
      ]_vars

\* A summary of a session with records was returned while a report was
\* being generated.
C9_Witness ==
    /\ resp.op = "getAttendanceSummary"
    /\ resp.value.total = 2
    /\ report.pc = "summary"

----------------------------------------------------------------------------
(* Duty schedules *)

\* C10: a step changes no stored duty schedule (a schedule whose id is in the
\* table before and after has the same row), and getDutyScheduleById of a
\* stored schedule returns the teacher_id, duty_date and floor that
\* createDutySchedule was given for it.
C10_DutyScheduleImmutable ==
    [][ /\ \A i \in DOMAIN dutySchedules : \A j \in DOMAIN dutySchedules' :
              dutySchedules[i].id = dutySchedules'[j].id =>
                  dutySchedules[i] = dutySchedules'[j]
        /\ (resp'.op = "getDutyScheduleById" /\ resp'.arg \in Ids(dutySchedules')) =>
              /\ resp'.value.id = resp'.arg
              /\ resp'.value.teacher_id = dutyInputs'[resp'.arg].teacher_id
              /\ resp'.value.duty_date = dutyInputs'[resp'.arg].duty_date
              /\ resp'.value.floor = dutyInputs'[resp'.arg].floor
      ]_vars

\* A floor-4 schedule of the second date is returned while it has a record.
C10_Witness ==
    /\ resp.op = "getDutyScheduleById"
    /\ resp.arg \in Ids(dutySchedules)
    /\ resp.value.floor = "4" /\ resp.value.duty_date = 2
    /\ \E i \in DOMAIN attendanceRecords : attendanceRecords[i].duty_schedule_id = resp.arg

----------------------------------------------------------------------------
(* Lifetime of attendance records *)

\* C11: every stored attendance record names a duty schedule that is stored,
\* and when deleteDutySchedule(d) has returned true no stored record names d.
C11_RecordsNeverOutliveSchedule ==
    /\ \A i \in DOMAIN attendanceRecords :
          attendanceRecords[i].duty_schedule_id \in Ids(dutySchedules)
    /\ (resp.op = "deleteDutySchedule" /\ resp.ok /\ resp.value = TRUE) =>
          \A i \in DOMAIN attendanceRecords :
              attendanceRecords[i].duty_schedule_id # resp.arg

\* A schedule was deleted after both records were created, and the record
\* that is left is of the other schedule.
C11_Witness ==
    /\ resp.op = "deleteDutySchedule" /\ resp.ok /\ resp.value = TRUE
    /\ serial.attendanceRecords = 3
    /\ Len(attendanceRecords) = 1
    /\ Len(dutySchedules) = 1

----------------------------------------------------------------------------
(* Floor query errors *)

\* C14: a completed getStudentsByFloor with a floor other than 2, 3 and 4
\* threw the 'Invalid floor' error and returned no students.
C14_InvalidFloorThrows ==
    (resp.op = "getStudentsByFloor" /\ resp.arg \notin {"2", "3", "4"}) =>
        /\ ~resp.ok
        /\ resp.error = "Invalid floor"
        /\ resp.value = <<>>

\* Floor 5 was asked for while students are stored.
C14_Witness ==
    /\ resp.op = "getStudentsByFloor" /\ resp.arg = "5" /\ ~resp.ok
    /\ Len(students) = 2

----------------------------------------------------------------------------
(* Deletes *)

\* C18: deleteAttendanceRecord(id) and deleteDutySchedule(id) return true
\* exactly when a row with the id was stored, after which none is; they return
\* false and change nothing when none was.  This holds for a duty schedule
\* that has attendance records too.
C18_DeleteReturnsWhetherRowExisted ==
    [][ /\ resp'.op = "deleteAttendanceRecord" =>
              /\ resp'.ok
              /\ resp'.value = (resp'.arg \in Ids(attendanceRecords))
              /\ resp'.arg \notin Ids(attendanceRecords')
              /\ (resp'.arg \notin Ids(attendanceRecords) => store' = store)
        /\ resp'.op = "deleteDutySchedule" =>
              /\ resp'.ok
              /\ resp'.value = (resp'.arg \in Ids(dutySchedules))
              /\ resp'.arg \notin Ids(dutySchedules')
              /\ (resp'.arg \notin Ids(dutySchedules) => store' = store) ]_vars

----------------------------------------------------------------------------

(* Client *)

\* C12: whatever the teacher did in the row, the arguments of onSave never
\* have isLate true with a status other than present.
C12_SavedLateOnlyWhenPresent ==
    onSave # <<>> => (onSave[2] = TRUE => onSave[1] = "present")

----------------------------------------------------------------------------

(* Creates that name other rows *)

\* C16: a create that names a row that is not stored fails with a not-found
\* error and inserts nothing: createAttendanceRecord with an unknown duty
\* schedule or student, createDutySchedule with an unknown teacher, and
\* createTeacher with a user_id that is not null and is no user's id.
C16_CreateWithUnknownReferenceFails ==
    [][ /\ (resp'.op = "createTeacher" /\ resp'.arg.user_id # {}
                /\ resp'.arg.user_id \cap Ids(users) = {}) =>
              /\ ~resp'.ok
              /\ resp'.error = "User with id does not exist"
              /\ teachers' = teachers
        /\ resp'.op = "createDutySchedule" =>
              /\ \A j \in DOMAIN dutySchedules' :
                    dutySchedules'[j].id \notin Ids(dutySchedules) =>
                        dutySchedules'[j].teacher_id \in Ids(teachers)
              /\ ~resp'.ok =>
                    /\ store' = store
                    /\ resp'.error = "Teacher not found"
                    /\ resp'.arg \notin Ids(teachers)
        /\ resp'.op = "createAttendanceRecord" =>
              /\ \A j \in DOMAIN attendanceRecords' :
                    attendanceRecords'[j].id \notin Ids(attendanceRecords) =>
                        /\ attendanceRecords'[j].duty_schedule_id \in Ids(dutySchedules)
                        /\ attendanceRecords'[j].student_id \in Ids(students)
              /\ ~resp'.ok =>
                    /\ store' = store
                    /\ \/ /\ resp'.error = "Duty schedule not found"
                          /\ resp'.arg \notin Ids(dutySchedules)
                       \/ /\ resp'.error = "Student not found"
                          /\ resp'.arg \notin Ids(students) ]_vars

----------------------------------------------------------------------------
(* Users *)

\* C19: after every step no two stored users have the same username; a
\* createUser whose username is stored, and an updateUser to a username
\* another user has, fail and leave the users as they were.
C19_UsernamesUnique ==
    [][ /\ \A i, j \in DOMAIN users' : users'[i].username = users'[j].username => i = j
        /\ (resp'.op = "createUser"
                /\ \E i \in DOMAIN users : users[i].username = resp'.arg.username) =>
              /\ ~resp'.ok
              /\ users' = users
        /\ (resp'.op = "updateUser" /\ "username" \in DOMAIN resp'.arg
                /\ resp'.arg.id \in Ids(users)
                /\ \E i \in DOMAIN users : /\ users[i].username = resp'.arg.username
                                           /\ users[i].id # resp'.arg.id) =>
              /\ ~resp'.ok
              /\ users' = users ]_vars

\* An update of one user to the other's username was refused.
C19_Witness ==
    /\ resp.op = "updateUser" /\ ~resp.ok /\ resp.error = "unique violation"
    /\ Len(users) = 2

\* C20: login returns the stored user of the username, with the password
\* blanked, exactly when there is one and the password verifies against its
\* stored hash, and null otherwise; it changes nothing that is stored.
C20_LoginChecksCredentials ==
    [][ resp'.op = "login" =>
          LET matches == {i \in DOMAIN users :
                            /\ users[i].username = resp'.arg.username
                            /\ passwordVerify(resp'.arg.password, users[i].password)}
          IN  /\ resp'.ok
              /\ IF matches = {}
                   THEN resp'.value = <<>>
                   ELSE \E i \in matches :
                          resp'.value = << [id |-> users[i].id,
                                            username |-> users[i].username,
                                            password |-> "",
                                            role |-> users[i].role] >>
              /\ users' = users /\ store' = store /\ serial' = serial ]_vars

\* Two users with different passwords are stored and a login with the
\* second password returned its user, blanked.
C20_Witness ==
    /\ resp.op = "login" /\ Len(resp.value) = 1
    /\ resp.arg.password = "rahasia1"
    /\ resp.value[1].password = ""
    /\ Len(users) = 2
    /\ \E i \in DOMAIN users : users[i].password[3] = "password123"

----------------------------------------------------------------------------

(* Updates of attendance records *)

UpdatableFields == {"status", "is_late", "notes"}

\* The positions in commits of the updates of record id.
CommitsOf(id) == {k \in DOMAIN commits : commits[k].input.id = id}

\* C15: for every stored record, each field that the update of it committed
\* last provided has the value of that update, whatever the updates
\* committed before it wrote and however the calls overlapped.
C15_LastWriteWins ==
    \A i \in DOMAIN attendanceRecords :
        LET r == attendanceRecords[i]
        IN  CommitsOf(r.id) # {} =>
                LET k == CHOOSE n \in CommitsOf(r.id) : \A m \in CommitsOf(r.id) : m <= n
                    last == commits[k].input
                IN  \A f \in UpdatableFields \cap DOMAIN last : r[f] = last[f]

\* Two calls on one record overlapped, wrote different statuses, and the
\* status stored is the one of the call that committed second.
C15_Witness ==
    /\ Len(commits) = 2
    /\ commits[1].concurrent
    /\ commits[1].input.id = commits[2].input.id
    /\ "status" \in DOMAIN commits[1].input /\ "status" \in DOMAIN commits[2].input
    /\ commits[1].input.status # commits[2].input.status
    /\ \E i \in DOMAIN attendanceRecords :
          /\ attendanceRecords[i].id = commits[2].input.id
          /\ attendanceRecords[i].status = commits[2].input.status

\* C17: the UPDATE of an updateAttendanceRecord call gives the record with
\* the id the value of each field the input provides and changes nothing
\* else: not the record's other fields, its duty_schedule_id or student_id,
\* nor any other row; a call is let through to its UPDATE only when the id is
\* stored, and otherwise throws 'Attendance record not found' and changes
\* nothing.  (A step that leaves the requests in flight as they are and
\* ends with that error is a call that was turned down.)
C17_UpdateTouchesProvidedFieldsOnly ==
    [][ /\ \A c \in Callers :
              (updates[c].pc = "update" /\ updates'[c].pc = "idle") =>
                  LET input == updates[c].input
                  IN  /\ Len(attendanceRecords') = Len(attendanceRecords)
                      /\ \A i \in DOMAIN attendanceRecords :
                            LET old == attendanceRecords[i]
                                new == attendanceRecords'[i]
                            IN  /\ new.id = old.id
                                /\ new.duty_schedule_id = old.duty_schedule_id
                                /\ new.student_id = old.student_id
                                /\ old.id # input.id => new = old
                                /\ old.id = input.id =>
                                      \A f \in UpdatableFields :
                                          new[f] = IF f \in DOMAIN input
                                                     THEN input[f] ELSE old[f]
                      /\ <<teachers, students, dutySchedules>>'
                            = <<teachers, students, dutySchedules>>
        /\ \A c \in Callers :
              (updates[c].pc = "idle" /\ updates'[c].pc = "update") =>
                  /\ updates'[c].input.id \in Ids(attendanceRecords)
                  /\ store' = store
        /\ (updates' = updates /\ resp'.op = "updateAttendanceRecord" /\ ~resp'.ok) =>
              /\ resp'.error = "Attendance record not found"
              /\ resp'.arg \notin Ids(attendanceRecords)
              /\ store' = store ]_vars

\* An update that provided the status only has committed: the record keeps
\* its lateness and notes, and the other record is as it was created.
C17_Witness ==
    /\ Len(commits) = 1
    /\ DOMAIN commits[1].input = {"id", "status"}
    /\ Len(attendanceRecords) = 2
    /\ \E i \in DOMAIN attendanceRecords :
          /\ attendanceRecords[i].id = commits[1].input.id
          /\ attendanceRecords[i].status = "sick"
          /\ attendanceRecords[i].is_late /\ attendanceRecords[i].notes = "macet"
    /\ \E i \in DOMAIN attendanceRecords :
          /\ attendanceRecords[i].id # commits[1].input.id
          /\ attendanceRecords[i].status = "permission"

----------------------------------------------------------------------------

(* Consistency of a report *)

\* The detail lines of a report's content, and those of one status.
DetailLinesOf(content) == {i \in DOMAIN content : i > 16}

DetailLinesWithStatus(content, status) ==
    {i \in DetailLinesOf(content) : content[i][6] = status}

\* C23: in every report returned, 'Total Students' is the number of detail
\* lines and each status count is the number of detail lines with that
\* status, whatever was written to the session's records while the report
\* was being generated.
C23_ReportInternallyConsistent ==
    (resp.op = "generateAttendanceReport" /\ resp.ok) =>
        LET content == resp.value
        IN  /\ content[8][2] = ToString(Cardinality(DetailLinesOf(content)))
            /\ content[9][2] = ToString(Cardinality(DetailLinesWithStatus(content, "present")))
            /\ content[10][2] = ToString(Cardinality(DetailLinesWithStatus(content, "sick")))
            /\ content[11][2] =
                  ToString(Cardinality(DetailLinesWithStatus(content, "permission")))
            /\ content[12][2] = ToString(Cardinality(DetailLinesWithStatus(content, "absent")))

----------------------------------------------------------------------------

(* Access to the user API *)

UserManagementOps == {"createUser", "updateUser", "deleteUser", "getUsers", "getUserById"}

\* C21: a request to createUser, updateUser, deleteUser, getUsers or
\* getUserById by a caller who is not logged in as a user with role admin
\* is turned down: it fails and leaves the users as they were.
C21_UserManagementAdminOnly ==
    [][ (/\ resp'.op \in UserManagementOps
         /\ currentUser' = currentUser
         /\ ~(currentUser # <<>> /\ currentUser[1].role = "admin")) =>
            /\ ~resp'.ok
            /\ users' = users ]_vars

\* C22: no user in a response of getUsers or getUserById carries the
\* password hash stored for a user.
C22_UserQueriesHidePasswords ==
    (resp.op \in {"getUsers", "getUserById"}) =>
        \A i \in DOMAIN resp.value :
            resp.value[i].password \notin {users[j].password : j \in DOMAIN users}

----------------------------------------------------------------------------
(* Concurrent deletes *)

\* C26: of the deleteAttendanceRecord calls on one id at most one returned
\* true, and a call returned true only when its DELETE removed the record.
C26_OneDeleteReturnsTrue ==
    /\ \A i, j \in DOMAIN deleteReturns :
          (/\ deleteReturns[i].id = deleteReturns[j].id
           /\ deleteReturns[i].value /\ deleteReturns[j].value) => i = j
    /\ \A i \in DOMAIN deleteReturns : deleteReturns[i].value => deleteReturns[i].removed

----------------------------------------------------------------------------

(* The attendance screen *)

\* C24: every record that a step of the attendance screen creates or changes
\* is a record of the schedule selected at that moment, for a student on
\* that schedule's floor.
C24_SaveWritesSelectedScheduleOnly ==
    [][ attendanceRecords' # attendanceRecords =>
          /\ screen.selectedSchedule # <<>>
          /\ \A j \in DOMAIN attendanceRecords' :
                (j \notin DOMAIN attendanceRecords
                    \/ attendanceRecords'[j] # attendanceRecords[j]) =>
                    /\ attendanceRecords'[j].duty_schedule_id = screen.selectedSchedule[1].id
                    /\ \E k \in DOMAIN students :
                          /\ students[k].id = attendanceRecords'[j].student_id
                          /\ FloorCondition(screen.selectedSchedule[1].floor, students[k])
      ]_vars

----------------------------------------------------------------------------
(* Client and server floors *)

FloorLabel(f) ==
    CASE f = "2" -> "Lantai 2" [] f = "3" -> "Lantai 3" [] f = "4" -> "Lantai 4"

\* C25: for a class of the catalogue getFloorByClass returns 'Lantai f'
\* exactly for the floor f whose roster condition selects the class, and
\* never 'Tidak diketahui'; a roster returned for floor f holds exactly the
\* stored students whose label is 'Lantai f'.
C25_ClientFloorAgreesWithRoster ==
    /\ (floorOf # <<>> /\ floorOf.arg \in classLevelSchema \X classSectionSchema) =>
          /\ floorOf.value # "Tidak diketahui"
          /\ \A f \in floorSchema :
                floorOf.value = FloorLabel(f)
                    <=> FloorCondition(f, [class_level |-> floorOf.arg[1],
                                           class_section |-> floorOf.arg[2]])
    /\ (resp.op = "getStudentsByFloor" /\ resp.ok) =>
          \A i \in DOMAIN students :
              (\E j \in DOMAIN resp.value : resp.value[j] = students[i])
                  <=> getFloorByClass(students[i].class_level, students[i].class_section)
                        = FloorLabel(resp.arg)

\* The label of 8G is floor 4 and the roster of floor 4 returned the 8G
\* student and not the 9G one.
C25_Witness ==
    /\ floorOf # <<>>
    /\ floorOf.arg = <<"8", "G">> /\ floorOf.value = "Lantai 4"
    /\ resp.op = "getStudentsByFloor" /\ resp.arg = "4"
    /\ Len(students) = 2 /\ Len(resp.value) = 1
    /\ resp.value[1].class_level = "8" /\ resp.value[1].class_section = "G"
    /\ \E i \in DOMAIN students : students[i].class_level = "9" /\ students[i].class_section = "G"

----------------------------------------------------------------------------
(* Bulk import of teachers *)

\* Entry k of a list cannot be stored: its user_id is looked up (it is
\* neither null nor 0) and is no user's id, or its nip is stored already or
\* is that of an earlier entry.
EntryFails(list, k) ==
    \/ list[k].user_id \notin {{}, {0}} /\ list[k].user_id \cap Ids(users) = {}
    \/ \E i \in DOMAIN teachers : teachers[i].nip = list[k].nip
    \/ \E j \in 1..(k - 1) : list[j].nip = list[k].nip

\* The first n entries of the list were appended to the teachers, in order.
Appended(list, n) ==
    /\ Len(teachers') = Len(teachers) + n
    /\ \A i \in DOMAIN teachers : teachers'[i] = teachers[i]
    /\ \A j \in 1..n :
          /\ teachers'[Len(teachers) + j].name = list[j].name
          /\ teachers'[Len(teachers) + j].nip = list[j].nip

----------------------------------------------------------------------------
(* Frame of attendance writes *)

AttendanceWrites == {"createAttendanceRecord", "updateAttendanceRecord", "deleteAttendanceRecord"}

\* C28: a create, update or delete of an attendance record of one duty
\* schedule leaves, for every other schedule B, what
\* getAttendanceByDutySchedule(B) and getAttendanceSummary(B) return as it was.
C28_OtherSessionsUntouched ==
    [][ resp'.op \in AttendanceWrites =>
          LET A == IF resp'.op = "createAttendanceRecord"
                     THEN IF resp'.ok THEN {resp'.value.duty_schedule_id} ELSE {}
                     ELSE {attendanceRecords[i].duty_schedule_id :
                             i \in {n \in DOMAIN attendanceRecords :
                                      attendanceRecords[n].id = resp'.arg}}
          IN  \A B \in (1..MaxSchedules) \ A :
                  /\ RecordsOf(B)' = RecordsOf(B)
                  /\ AttendanceSummary(B)' = AttendanceSummary(B) ]_vars

\* A record of one schedule was updated while another schedule has a record
\* of the same student.
C28_Witness ==
    /\ resp.op = "updateAttendanceRecord" /\ resp.ok
    /\ Len(attendanceRecords) = 2
    /\ attendanceRecords[1].duty_schedule_id # attendanceRecords[2].duty_schedule_id
    /\ attendanceRecords[1].student_id = attendanceRecords[2].student_id
    /\ attendanceRecords[1].status # attendanceRecords[2].status

----------------------------------------------------------------------------
====
